---- MODULE Spec2Model ----
(***************************************************************************)
(* Model of SingleLinkedList<Type> (single-linked-list.h).                 *)
(*                                                                         *)
(* The heap is a pool of Node objects addressed 1..MaxNodes; the head_     *)
(* member (sentinel) of list object l lives at address Sentinel(l).  Every *)
(* member function is one action; the body of each member function is a    *)
(* function from memory records to memory records, so that member          *)
(* functions that call each other (operator= -> copy constructor -> swap   *)
(* -> ~SingleLinkedList -> Clear) are composed exactly as in the source.   *)
(*                                                                         *)
(* operator new may throw std::bad_alloc at any allocation and must throw  *)
(* when the pool is exhausted.  The history variable `last` keeps, for the *)
(* operations named in `watch`, the arguments and result of the latest     *)
(* call and the memory it started from; the specifications below differ    *)
(* only in which operations they watch.                                    *)
(***************************************************************************)
EXTENDS Integers, Sequences, FiniteSets, TLC

\* ---------------------------------------------------------------- bounds
MaxNodes == 3      \* Node objects the allocator can hand out at one time
MaxLists == 2      \* list objects the client program declares
MaxVal   == 2      \* element values are 1..MaxVal
MaxSize  == MaxNodes       \* cap on size_, which PopFront never lowers
MaxInit  == MaxNodes - 1   \* longest std::initializer_list the client passes

NULL    == 0
NoValue == 0       \* content of storage that holds no constructed value

Nodes    == 1..MaxNodes
Lists    == 1..MaxLists
Values   == 1..MaxVal
TmpCopy   == MaxLists + 1   \* the local `tmp` of the copy constructor
TmpAssign == MaxLists + 2   \* the local `tmp` of operator=
AllLists == 1..(MaxLists + 2)

\* address of l.head_ (the sentinel is a member of the list object)
Sentinel(l) == MaxNodes + l
Sentinels == {Sentinel(l) : l \in AllLists}

VARIABLES next,    \* next_node of every Node and of every head_
          value,   \* value of every Node
          size_,   \* size_ of every list object
          heap,    \* allocator state of every Node: "free" or "live"
          dfree,   \* TRUE once `delete` hit storage that was not allocated
          live,    \* which list objects are within their lifetime
          last,    \* the most recent observed call: arguments, result and
                   \* the state it started from
          watch    \* the operations whose calls are observed in `last`

vars == <<next, value, size_, heap, dfree, live, last, watch>>

\* the memory as one record
Mem == [next |-> next, value |-> value, size_ |-> size_, heap |-> heap,
        dfree |-> dfree]

\* ------------------------------------------------------- Node, new, delete
FreeNodes(m) == {n \in Nodes : m.heap[n] = "free"}

\* the address operator new returns (the lowest free one)
NewNode(m) == CHOOSE n \in FreeNodes(m) : \A k \in FreeNodes(m) : n <= k

\* new Node(val, nxt), stored at address n
Node(m, n, val, nxt) ==
    [m EXCEPT !.heap[n] = "live", !.value[n] = val, !.next[n] = nxt]

\* delete n; the storage of a deleted Node holds nothing the program may read
Delete(m, n) ==
    IF m.heap[n] = "live"
    THEN [m EXCEPT !.heap[n] = "free", !.value[n] = NoValue, !.next[n] = NULL]
    ELSE [m EXCEPT !.dfree = TRUE]

\* ------------------------------------------------------------- observers
RECURSIVE ChainFrom(_, _, _)
ChainFrom(m, n, fuel) ==
    IF n = NULL \/ fuel = 0 THEN <<>>
    ELSE <<n>> \o ChainFrom(m, m.next[n], fuel - 1)

\* the real nodes reached by ++ from begin() up to end()
Chain(m, l) == ChainFrom(m, m.next[Sentinel(l)], MaxNodes + 1)

\* the value sequence iteration yields
Contents(m, l) == [i \in 1..Len(Chain(m, l)) |-> m.value[Chain(m, l)[i]]]

begin(m, l) == m.next[Sentinel(l)]
end == NULL
before_begin(l) == Sentinel(l)
GetSize(m, l) == m.size_[l]
IsEmpty(m, l) == IF m.size_[l] = 0 THEN TRUE ELSE FALSE

Range(s) == {s[i] : i \in 1..Len(s)}
\* positions InsertAfter accepts: the sentinel or a real node of this list
Positions(m, l) == {Sentinel(l)} \cup Range(Chain(m, l))

\* ------------------------------------------------- member function bodies
\* A body maps the memory before the call to the memory after it.  A body
\* that allocates takes `ok`, the number of allocations operator new grants
\* during the call before it throws std::bad_alloc, and yields
\* [m |-> memory, threw |-> whether the exception left the function].

\* SingleLinkedList() : head_(), size_()
DefaultCtor(m, l) == [m EXCEPT !.next[Sentinel(l)] = NULL, !.size_[l] = 0]

\* the while loop of Clear(); the size_-- of each round is overwritten by
\* the size_ = 0 that ends Clear() and is not modelled
RECURSIVE ClearLoop(_, _)
ClearLoop(m, first_node) ==
    IF first_node = NULL THEN m
    ELSE LET current_node == first_node
         IN  ClearLoop(Delete(m, current_node), m.next[first_node])

\* Clear that deletes the first node only
ClearBodyFirstOnly(m, l) ==
    LET m1 == IF m.next[Sentinel(l)] # NULL
              THEN Delete(m, m.next[Sentinel(l)])
              ELSE m
    IN  [m1 EXCEPT !.next[Sentinel(l)] = NULL, !.size_[l] = 0]

ClearBody(m, l) ==
    LET m1 == IF m.next[Sentinel(l)] # NULL
              THEN ClearLoop(m, m.next[Sentinel(l)])
              ELSE m
    IN  [m1 EXCEPT !.next[Sentinel(l)] = NULL, !.size_[l] = 0]

\* ~SingleLinkedList()
Dtor(m, l) == ClearBody(m, l)

\* swap that exchanges the chains and forgets the sizes
SwapBodyKeepsSize(m, this, other) ==
    [m EXCEPT !.next = [@ EXCEPT ![Sentinel(this)] = m.next[Sentinel(other)],
                                 ![Sentinel(other)] = m.next[Sentinel(this)]]]

\* void swap(SingleLinkedList& other)
SwapBody(m, this, other) ==
    [m EXCEPT !.size_ = [@ EXCEPT ![this] = m.size_[other],
                                  ![other] = m.size_[this]],
              !.next = [@ EXCEPT ![Sentinel(this)] = m.next[Sentinel(other)],
                                 ![Sentinel(other)] = m.next[Sentinel(this)]]]

\* PushFront that links the new node and forgets ++size_
PushFrontBodyNoCount(m, l, v, ok) ==
    IF ok = 0 THEN [m |-> m, threw |-> TRUE]
    ELSE LET n == NewNode(m)
             m1 == Node(m, n, v, m.next[Sentinel(l)])
         IN  [m |-> [m1 EXCEPT !.next[Sentinel(l)] = n], threw |-> FALSE]

PushFrontBody(m, l, v, ok) ==
    IF ok = 0 THEN [m |-> m, threw |-> TRUE]
    ELSE LET n == NewNode(m)
             m1 == Node(m, n, v, m.next[Sentinel(l)])
         IN  [m |-> [m1 EXCEPT !.next[Sentinel(l)] = n, !.size_[l] = @ + 1],
              threw |-> FALSE]

\* PopFront that nulls head_.next_node on both branches
PopFrontBodyDropsRest(m, l) ==
    IF m.next[Sentinel(l)] # NULL
    THEN LET node_for_del == m.next[Sentinel(l)]
         IN  Delete([m EXCEPT !.next[Sentinel(l)] = NULL], node_for_del)
    ELSE m

PopFrontBody(m, l) ==
    IF m.next[Sentinel(l)] # NULL
    THEN LET node_for_del == m.next[Sentinel(l)]
             node_after_del == m.next[m.next[Sentinel(l)]]
             m1 == IF node_after_del # NULL
                   THEN [m EXCEPT !.next[Sentinel(l)] = node_after_del]
                   ELSE [m EXCEPT !.next[Sentinel(l)] = NULL]
         IN  Delete(m1, node_for_del)
    ELSE m

\* InsertAfter that constructs the new node with a null next_node
InsertAfterBodyDropsTail(m, l, pos, v, ok) ==
    IF ok = 0 THEN [m |-> m, threw |-> TRUE, ret |-> NULL]
    ELSE LET new_node == NewNode(m)
             m1 == Node(m, new_node, v, NULL)
         IN  [m |-> [m1 EXCEPT !.next[pos] = new_node, !.size_[l] = @ + 1],
              threw |-> FALSE, ret |-> new_node]

\* yields the memory and the Node* of the returned iterator
InsertAfterBody(m, l, pos, v, ok) ==
    IF ok = 0 THEN [m |-> m, threw |-> TRUE, ret |-> NULL]
    ELSE LET new_node == NewNode(m)
             m1 == Node(m, new_node, v, m.next[pos])
         IN  [m |-> [m1 EXCEPT !.next[pos] = new_node, !.size_[l] = @ + 1],
              threw |-> FALSE, ret |-> new_node]

EraseAfterBody(m, l, pos) ==
    LET node_for_del == m.next[pos]
        m1 == [m EXCEPT !.next[pos] = m.next[m.next[pos]]]
        m2 == Delete(m1, node_for_del)
    IN  [m |-> m2, ret |-> m2.next[pos]]

\* SingleLinkedList(std::initializer_list<Type> values): PushFront of
\* values[i], values[i-1], ..., values[1]
RECURSIVE InitLoop(_, _, _, _, _)
InitLoop(m, l, values, i, ok) ==
    IF i = 0 THEN [m |-> m, threw |-> FALSE]
    ELSE LET r == PushFrontBody(m, l, values[i], ok)
         IN  IF r.threw THEN r
             ELSE InitLoop(r.m, l, values, i - 1, ok - 1)

\* an initializer_list constructor that walks begin(values)..end(values)
InitListCtorForward(m, l, values, ok) ==
    InitLoop(ClearBody(m, l), l,
             [i \in 1..Len(values) |-> values[Len(values) + 1 - i]],
             Len(values), ok)

InitListCtor(m, l, values, ok) ==
    InitLoop(ClearBody(m, l), l, values, Len(values), ok)

\* the while loop of the copy constructor
RECURSIVE CopyLoop(_, _, _, _)
CopyLoop(m, prev_node, other_next_node, ok) ==
    IF other_next_node = NULL THEN [m |-> m, threw |-> FALSE]
    ELSE IF ok = 0 THEN [m |-> m, threw |-> TRUE]
    ELSE LET new_node == NewNode(m)
             m1 == Node(m, new_node, m.value[other_next_node], NULL)
             m2 == [m1 EXCEPT !.next[prev_node] = new_node]
         IN  CopyLoop(m2, new_node, m.next[other_next_node], ok - 1)

\* a copy constructor that builds the chain with no owner: nothing deletes the
\* nodes made so far when operator new throws
CopyCtorNoOwner(m, this, other, ok) ==
    LET m0 == DefaultCtor(DefaultCtor(m, this), TmpCopy)
        r  == CopyLoop(m0, Sentinel(TmpCopy), m0.next[Sentinel(other)], ok)
    IN  IF r.threw
        THEN [m |-> DefaultCtor(r.m, TmpCopy), threw |-> TRUE]
        ELSE LET m3 == [r.m EXCEPT !.size_[TmpCopy] = r.m.size_[other]]
             IN  [m |-> Dtor(SwapBody(m3, this, TmpCopy), TmpCopy),
                  threw |-> FALSE]

\* SingleLinkedList(const SingleLinkedList& other); `tmp` is destroyed on
\* return and, by stack unwinding, when operator new throws
CopyCtor(m, this, other, ok) ==
    LET m0 == DefaultCtor(DefaultCtor(m, this), TmpCopy)
        other_next_node == m0.next[Sentinel(other)]
    IN  IF m0.next[Sentinel(other)] # NULL
        THEN IF ok = 0
             THEN [m |-> Dtor(m0, TmpCopy), threw |-> TRUE]
             ELSE LET first_node == NewNode(m0)
                      m1 == Node(m0, first_node, m0.value[other_next_node], NULL)
                      m2 == [m1 EXCEPT !.next[Sentinel(TmpCopy)] = first_node]
                      r  == CopyLoop(m2, first_node, m2.next[other_next_node],
                                     ok - 1)
                  IN  IF r.threw
                      THEN [m |-> Dtor(r.m, TmpCopy), threw |-> TRUE]
                      ELSE LET m3 == [r.m EXCEPT !.size_[TmpCopy] =
                                                     r.m.size_[other]]
                           IN  [m |-> Dtor(SwapBody(m3, this, TmpCopy), TmpCopy),
                                threw |-> FALSE]
        ELSE [m |-> Dtor(SwapBody(m0, this, TmpCopy), TmpCopy), threw |-> FALSE]

\* operator= without the test for self-assignment
AssignBodyNoSelfTest(m, this, rhs, ok) ==
    LET c == CopyCtor(m, TmpAssign, rhs, ok)
    IN  IF c.threw THEN c
        ELSE [m |-> Dtor(SwapBody(c.m, this, TmpAssign), TmpAssign),
              threw |-> FALSE]

\* SingleLinkedList& operator=(const SingleLinkedList& rhs)
AssignBody(m, this, rhs, ok) ==
    IF this = rhs THEN [m |-> m, threw |-> FALSE]
    ELSE LET c == CopyCtor(m, TmpAssign, rhs, ok)
         IN  IF c.threw THEN c
             ELSE [m |-> Dtor(SwapBody(c.m, this, TmpAssign), TmpAssign),
                   threw |-> FALSE]

\* std::equal(first1, last1, first2): "true", "false", or "ub" when *first2
\* dereferences the null node_ of an iterator that ran off the end of rhs
RECURSIVE StdEqual(_, _, _)
StdEqual(m, first1, first2) ==
    IF first1 = NULL THEN "true"
    ELSE IF first2 = NULL THEN "ub"
    ELSE IF m.value[first1] # m.value[first2] THEN "false"
    ELSE StdEqual(m, m.next[first1], m.next[first2])

\* bool operator==(lhs, rhs)
OperatorEq(m, lhs, rhs) == StdEqual(m, begin(m, lhs), begin(m, rhs))

\* std::lexicographical_compare(first1, last1, first2, last2)
RECURSIVE StdLexicographicalCompare(_, _, _)
StdLexicographicalCompare(m, first1, first2) ==
    IF first1 = NULL \/ first2 = NULL
    THEN first1 = NULL /\ first2 # NULL
    ELSE IF m.value[first1] < m.value[first2] THEN TRUE
    ELSE IF m.value[first2] < m.value[first1] THEN FALSE
    ELSE StdLexicographicalCompare(m, m.next[first1], m.next[first2])

\* operator< with its operands exchanged
OperatorLessSwapped(m, lhs, rhs) ==
    StdLexicographicalCompare(m, begin(m, rhs), begin(m, lhs))

\* bool operator<(lhs, rhs)
OperatorLess(m, lhs, rhs) ==
    StdLexicographicalCompare(m, begin(m, lhs), begin(m, rhs))

\* bool operator<=(lhs, rhs)
OperatorLessEq(m, lhs, rhs) == ~OperatorLess(m, lhs, rhs)

\* operator> as the standard library derives it: rhs < lhs
OperatorGreaterStandard(m, lhs, rhs) == OperatorLess(m, rhs, lhs)

\* bool operator>(lhs, rhs)
OperatorGreater(m, lhs, rhs) == ~OperatorLess(m, lhs, rhs)

\* bool operator>=(lhs, rhs)
OperatorGreaterEq(m, lhs, rhs) == ~OperatorLess(m, lhs, rhs)

\* the bool a comparison returns, as recorded in `last`
Bool(b) == IF b THEN "true" ELSE "false"

\* what a build can do once the behaviour is undefined
Outcomes(r) == IF r = "ub" THEN {"true", "false", "crash"} ELSE {r}

\* ---------------------------------------------------------------- actions
Min(a, b) == IF a <= b THEN a ELSE b
NumFree == Cardinality(FreeNodes(Mem))
\* how many allocations operator new grants to a call that asks for `need`
Grants(need) == 0..Min(need, NumFree)

SeqsUpTo(k) == UNION {[1..n -> Values] : n \in 0..k}

IsSwap(op) == op \in {"swap", "SwapFree"}

InitMem == [next |-> [p \in Nodes \cup Sentinels |-> NULL],
            value |-> [n \in Nodes |-> NoValue],
            size_ |-> [l \in AllLists |-> 0],
            heap |-> [n \in Nodes |-> "free"],
            dfree |-> FALSE]
InitLive == [l \in Lists |-> FALSE]

\* `last` after a call that is not observed
Idle == [op |-> "none", l |-> 0, r |-> 0, pos |-> NULL, v |-> NoValue,
         ok |-> 0, threw |-> FALSE, it |-> NULL, res |-> "", pre |-> InitMem,
         prelive |-> InitLive, twice |-> FALSE, pp |-> InitMem,
         values |-> <<>>]

\* the record of a call; ok is the number of allocations it was granted,
\* pre/prelive are the state the call started from,
\* pp the state two calls back when this call and the one before are swaps
\* of the same two lists
Call(op, l, r, pos, v, ok, threw, it, res) ==
    IF op \notin watch THEN Idle
    ELSE [op |-> op, l |-> l, r |-> r, pos |-> pos, v |-> v, ok |-> ok,
          threw |-> threw,
          it |-> it, res |-> res, pre |-> Mem, prelive |-> live,
          twice |-> (IsSwap(op) /\ IsSwap(last.op)
                       /\ {l, r} = {last.l, last.r}),
          pp |-> IF IsSwap(op) /\ IsSwap(last.op) /\ {l, r} = {last.l, last.r}
                 THEN last.pre ELSE InitMem,
          values |-> <<>>]

\* the record of a call that takes an initializer list
CallWith(values, call) ==
    IF call = Idle THEN Idle ELSE [call EXCEPT !.values = values]

Commit(m) ==
    /\ next' = m.next
    /\ value' = m.value
    /\ size_' = m.size_
    /\ heap' = m.heap
    /\ dfree' = m.dfree

InitState ==
    /\ next = InitMem.next
    /\ value = InitMem.value
    /\ size_ = InitMem.size_
    /\ heap = InitMem.heap
    /\ dfree = InitMem.dfree
    /\ live = InitLive
    /\ last = Idle

Init == InitState /\ watch = {}

\* SingleLinkedList<Type> l;
Construct(l) ==
    /\ ~live[l]
    /\ UNCHANGED watch
    /\ Commit(DefaultCtor(Mem, l))
    /\ live' = [live EXCEPT ![l] = TRUE]
    /\ last' = Call("Construct", l, 0, NULL, NoValue, 0, FALSE, NULL, "")

\* SingleLinkedList<Type> l{values}; an exception leaves no object behind
ConstructInit(l, values) ==
    /\ ~live[l]
    /\ UNCHANGED watch
    /\ \E ok \in Grants(Len(values)) :
         LET r == InitListCtor(Mem, l, values, ok)
         IN  /\ Commit(IF r.threw THEN DefaultCtor(r.m, l) ELSE r.m)
             /\ live' = [live EXCEPT ![l] = ~r.threw]
             /\ last' = CallWith(values,
                             Call("ConstructInit", l, 0, NULL, NoValue,
                                  ok, r.threw, NULL, ""))

\* SingleLinkedList<Type> l(other);
CopyConstruct(l, other) ==
    /\ ~live[l] /\ live[other]
    /\ UNCHANGED watch
    /\ \E ok \in Grants(Len(Chain(Mem, other))) :
         LET r == CopyCtor(Mem, l, other, ok)
         IN  /\ Commit(r.m)
             /\ live' = [live EXCEPT ![l] = ~r.threw]
             /\ last' = Call("CopyConstruct", l, other, NULL, NoValue,
                             ok, r.threw, NULL, "")

\* l = rhs;
Assign(l, rhs) ==
    /\ live[l] /\ live[rhs]
    /\ \E ok \in Grants(IF l = rhs THEN 0 ELSE Len(Chain(Mem, rhs))) :
         LET r == AssignBody(Mem, l, rhs, ok)
         IN  /\ Commit(r.m)
             /\ last' = Call("Assign", l, rhs, NULL, NoValue, ok, r.threw,
                             NULL, "")
    /\ UNCHANGED <<live, watch>>

\* l.swap(other);
swap(l, other) ==
    /\ live[l] /\ live[other]
    /\ Commit(SwapBody(Mem, l, other))
    /\ last' = Call("swap", l, other, NULL, NoValue, 0, FALSE, NULL, "")
    /\ UNCHANGED <<live, watch>>

\* swap(lhs, rhs);  the free function
SwapFree(lhs, rhs) ==
    /\ live[lhs] /\ live[rhs]
    /\ Commit(SwapBody(Mem, lhs, rhs))
    /\ last' = Call("SwapFree", lhs, rhs, NULL, NoValue, 0, FALSE, NULL, "")
    /\ UNCHANGED <<live, watch>>

\* the end of l's lifetime
Destroy(l) ==
    /\ live[l]
    /\ UNCHANGED watch
    /\ Commit(Dtor(Mem, l))
    /\ live' = [live EXCEPT ![l] = FALSE]
    /\ last' = Call("Destroy", l, 0, NULL, NoValue, 0, FALSE, NULL, "")

PushFront(l, v) ==
    /\ live[l] /\ size_[l] < MaxSize
    /\ \E ok \in Grants(1) :
         LET r == PushFrontBody(Mem, l, v, ok)
         IN  /\ Commit(r.m)
             /\ last' = Call("PushFront", l, 0, Sentinel(l), v, ok, r.threw,
                             NULL, "")
    /\ UNCHANGED <<live, watch>>

PopFront(l) ==
    /\ live[l]
    /\ Commit(PopFrontBody(Mem, l))
    /\ last' = Call("PopFront", l, 0, NULL, NoValue, 0, FALSE, NULL, "")
    /\ UNCHANGED <<live, watch>>

Clear(l) ==
    /\ live[l]
    /\ Commit(ClearBody(Mem, l))
    /\ last' = Call("Clear", l, 0, NULL, NoValue, 0, FALSE, NULL, "")
    /\ UNCHANGED <<live, watch>>

\* l.InsertAfter(pos, v); pos is the sentinel or a real node of l
InsertAfter(l, pos, v) ==
    /\ live[l] /\ size_[l] < MaxSize
    /\ pos \in Positions(Mem, l)
    /\ \E ok \in Grants(1) :
         LET r == InsertAfterBody(Mem, l, pos, v, ok)
         IN  /\ Commit(r.m)
             /\ last' = Call("InsertAfter", l, 0, pos, v, ok, r.threw, r.ret, "")
    /\ UNCHANGED <<live, watch>>

\* l.EraseAfter(pos); pos is the sentinel or a real node of l and has a
\* successor
EraseAfter(l, pos) ==
    /\ live[l]
    /\ pos \in Positions(Mem, l)
    /\ next[pos] # NULL
    /\ LET r == EraseAfterBody(Mem, l, pos)
       IN  /\ Commit(r.m)
           /\ last' = Call("EraseAfter", l, 0, pos, NoValue, 0, FALSE, r.ret, "")
    /\ UNCHANGED <<live, watch>>

\* lhs == rhs
Equal(lhs, rhs) ==
    /\ live[lhs] /\ live[rhs]
    /\ \E res \in Outcomes(OperatorEq(Mem, lhs, rhs)) :
         last' = Call("Equal", lhs, rhs, NULL, NoValue, 0, FALSE, NULL, res)
    /\ UNCHANGED <<next, value, size_, heap, dfree, live, watch>>

\* lhs < rhs
Less(lhs, rhs) ==
    /\ live[lhs] /\ live[rhs]
    /\ last' = Call("Less", lhs, rhs, NULL, NoValue, 0, FALSE, NULL,
                    Bool(OperatorLess(Mem, lhs, rhs)))
    /\ UNCHANGED <<next, value, size_, heap, dfree, live, watch>>

\* lhs <= rhs
LessEq(lhs, rhs) ==
    /\ live[lhs] /\ live[rhs]
    /\ last' = Call("LessEq", lhs, rhs, NULL, NoValue, 0, FALSE, NULL,
                    Bool(OperatorLessEq(Mem, lhs, rhs)))
    /\ UNCHANGED <<next, value, size_, heap, dfree, live, watch>>

\* lhs > rhs
Greater(lhs, rhs) ==
    /\ live[lhs] /\ live[rhs]
    /\ last' = Call("Greater", lhs, rhs, NULL, NoValue, 0, FALSE, NULL,
                    Bool(OperatorGreater(Mem, lhs, rhs)))
    /\ UNCHANGED <<next, value, size_, heap, dfree, live, watch>>

\* lhs >= rhs
GreaterEq(lhs, rhs) ==
    /\ live[lhs] /\ live[rhs]
    /\ last' = Call("GreaterEq", lhs, rhs, NULL, NoValue, 0, FALSE, NULL,
                    Bool(OperatorGreaterEq(Mem, lhs, rhs)))
    /\ UNCHANGED <<next, value, size_, heap, dfree, live, watch>>

Next ==
    \/ \E l \in Lists : Construct(l)
    \/ \E l \in Lists, values \in SeqsUpTo(MaxInit) : ConstructInit(l, values)
    \/ \E l, other \in Lists : CopyConstruct(l, other)
    \/ \E l, rhs \in Lists : Assign(l, rhs)
    \/ \E l, other \in Lists : swap(l, other)
    \/ \E lhs, rhs \in Lists : SwapFree(lhs, rhs)
    \/ \E l \in Lists : Destroy(l)
    \/ \E l \in Lists, v \in Values : PushFront(l, v)
    \/ \E l \in Lists : PopFront(l)
    \/ \E l \in Lists : Clear(l)
    \/ \E l \in Lists, pos \in Nodes \cup Sentinels, v \in Values :
         InsertAfter(l, pos, v)
    \/ \E l \in Lists, pos \in Nodes \cup Sentinels : EraseAfter(l, pos)
    \/ \E lhs, rhs \in Lists : Equal(lhs, rhs)
    \/ \E lhs, rhs \in Lists : Less(lhs, rhs)
    \/ \E lhs, rhs \in Lists : LessEq(lhs, rhs)
    \/ \E lhs, rhs \in Lists : Greater(lhs, rhs)
    \/ \E lhs, rhs \in Lists : GreaterEq(lhs, rhs)

Spec == Init /\ [][Next]_vars

\* the same program, observing the calls a property is about
Mutators == {"PushFront", "PopFront", "InsertAfter", "EraseAfter", "Clear"}
Allocators == {"PushFront", "InsertAfter", "CopyConstruct", "Assign"}

InitEqual == InitState /\ watch = {"Equal"}
SpecEqual == InitEqual /\ [][Next]_vars

InitPopFront == InitState /\ watch = {"PopFront"}
SpecPopFront == InitPopFront /\ [][Next]_vars

InitEraseAfter == InitState /\ watch = {"EraseAfter"}
SpecEraseAfter == InitEraseAfter /\ [][Next]_vars

InitInsert == InitState /\ watch = {"InsertAfter", "PushFront"}
SpecInsert == InitInsert /\ [][Next]_vars

InitCopy == InitState /\ watch = {"CopyConstruct"} \cup Mutators
SpecCopy == InitCopy /\ [][Next]_vars

InitThrow == InitState /\ watch = Allocators
SpecThrow == InitThrow /\ [][Next]_vars

InitSwap == InitState /\ watch = {"swap", "SwapFree"}
SpecSwap == InitSwap /\ [][Next]_vars

InitClear == InitState /\ watch = {"Clear"}
SpecClear == InitClear /\ [][Next]_vars

InitInitList == InitState /\ watch = {"ConstructInit"}
SpecInitList == InitInitList /\ [][Next]_vars

Orderings == {"Less", "LessEq", "Greater", "GreaterEq"}
InitOrder == InitState /\ watch = Orderings
SpecOrder == InitOrder /\ [][Next]_vars

InitAssign == InitState /\ watch = {"Assign"}
SpecAssign == InitAssign /\ [][Next]_vars

\* ------------------------------------------- operator=, statement by statement
\* The call `l = rhs` taken one statement at a time.  `last` is the frame of
\* the call: l is `this`, r is `rhs`, res the statement control is at, pos
\* and it the locals prev_node and other_next_node of the copy constructor
\* (it is first_node in the Clear loop of ~tmp), pre the memory at the call.
Frame(pc, this, rhs, prev_node, other_next_node) ==
    [Idle EXCEPT !.op = "operator=", !.l = this, !.r = rhs, !.res = pc,
                 !.pos = prev_node, !.it = other_next_node,
                 !.pre = Mem, !.prelive = live]

At(pc) == last.op = "operator=" /\ last.res = pc
\* no call of operator= is in progress
AtRest == last.op # "operator=" \/ last.res \in {"returned", "threw"}

Goto(pc, prev_node, other_next_node) ==
    last' = [last EXCEPT !.res = pc, !.pos = prev_node,
                         !.it = other_next_node]

\* line 283, and for distinct lists the entry of `SingleLinkedList tmp = rhs`:
\* the members of tmp, the local tmp of the copy constructor, line 253
AssignCall(l, rhs) ==
    /\ AtRest
    /\ live[l] /\ live[rhs]
    /\ IF l = rhs
       THEN /\ Commit(Mem)
            /\ last' = Frame("returned", l, rhs, NULL, NULL)
       ELSE /\ Commit(DefaultCtor(DefaultCtor(Mem, TmpAssign), TmpCopy))
            /\ last' = Frame("255", l, rhs, NULL, next[Sentinel(rhs)])
    /\ UNCHANGED <<live, watch>>

\* lines 255-261: the first node of the copy, or std::bad_alloc
CopyFirst ==
    /\ At("255")
    /\ IF next[Sentinel(last.r)] # NULL
       THEN \/ /\ FreeNodes(Mem) # {}
               /\ LET first_node == NewNode(Mem)
                      m1 == Node(Mem, first_node, value[last.it], NULL)
                      m2 == [m1 EXCEPT !.next[Sentinel(TmpCopy)] = first_node]
                  IN  /\ Commit(m2)
                      /\ Goto("263", first_node, next[last.it])
            \/ /\ Commit(Mem)
               /\ Goto("unwind", NULL, last.it)
       ELSE /\ Commit(Mem)
            /\ Goto("277", NULL, NULL)
    /\ UNCHANGED <<live, watch>>

\* lines 263-270: one round of the while loop, or std::bad_alloc
CopyNext ==
    /\ At("263")
    /\ IF last.it # NULL
       THEN \/ /\ FreeNodes(Mem) # {}
               /\ LET new_node == NewNode(Mem)
                      m1 == Node(Mem, new_node, value[last.it], NULL)
                      m2 == [m1 EXCEPT !.next[last.pos] = new_node]
                  IN  /\ Commit(m2)
                      /\ Goto("263", new_node, next[last.it])
            \/ /\ Commit(Mem)
               /\ Goto("unwind", last.pos, last.it)
       ELSE /\ Commit(Mem)
            /\ Goto("272", last.pos, NULL)
    /\ UNCHANGED <<live, watch>>

\* lines 272-273 or line 277, and the end of the copy constructor, where its
\* local tmp is destroyed
CopySwap ==
    /\ At("272") \/ At("277")
    /\ LET m3 == IF last.res = "272"
                 THEN [Mem EXCEPT !.size_[TmpCopy] = size_[last.r]]
                 ELSE Mem
       IN  Commit(Dtor(SwapBody(m3, TmpAssign, TmpCopy), TmpCopy))
    /\ Goto("290", NULL, NULL)
    /\ UNCHANGED <<live, watch>>

\* std::bad_alloc leaves the copy constructor: its local tmp is destroyed, the
\* tmp of operator= was never constructed, the exception leaves operator=
Unwind ==
    /\ At("unwind")
    /\ Commit(Dtor(Mem, TmpCopy))
    /\ last' = [last EXCEPT !.res = "threw", !.threw = TRUE,
                            !.pos = NULL, !.it = NULL]
    /\ UNCHANGED <<live, watch>>

\* line 290
AssignSwap ==
    /\ At("290")
    /\ Commit(SwapBody(Mem, last.l, TmpAssign))
    /\ Goto("292", NULL, NULL)
    /\ UNCHANGED <<live, watch>>

\* line 292: ~tmp runs Clear(), lines 347-349, or 360-361 for an empty tmp
TmpDtor ==
    /\ At("292")
    /\ IF next[Sentinel(TmpAssign)] # NULL
       THEN /\ Commit(Mem)
            /\ Goto("351", NULL, next[Sentinel(TmpAssign)])
       ELSE /\ Commit([Mem EXCEPT !.next[Sentinel(TmpAssign)] = NULL,
                                  !.size_[TmpAssign] = 0])
            /\ Goto("returned", NULL, NULL)
    /\ UNCHANGED <<live, watch>>

\* lines 351-357: one round of the Clear loop of ~tmp; lines 360-361 after it
ClearStep ==
    /\ At("351")
    /\ IF last.it # NULL
       THEN LET current_node == last.it
                m1 == Delete(Mem, current_node)
            IN  /\ Commit([m1 EXCEPT !.size_[TmpAssign] = @ - 1])
                /\ Goto("351", NULL, next[last.it])
       ELSE /\ Commit([Mem EXCEPT !.next[Sentinel(TmpAssign)] = NULL,
                                  !.size_[TmpAssign] = 0])
            /\ Goto("returned", NULL, NULL)
    /\ UNCHANGED <<live, watch>>

\* the client program with operator= run statement by statement: no other
\* call starts while a call of operator= is in progress
NextSteps ==
    \/ \E l \in Lists : AtRest /\ Construct(l)
    \/ \E l \in Lists, values \in SeqsUpTo(MaxInit) :
         AtRest /\ ConstructInit(l, values)
    \/ \E l, other \in Lists : AtRest /\ CopyConstruct(l, other)
    \/ \E l, other \in Lists : AtRest /\ swap(l, other)
    \/ \E lhs, rhs \in Lists : AtRest /\ SwapFree(lhs, rhs)
    \/ \E l \in Lists : AtRest /\ Destroy(l)
    \/ \E l \in Lists, v \in Values : AtRest /\ PushFront(l, v)
    \/ \E l \in Lists : AtRest /\ PopFront(l)
    \/ \E l \in Lists : AtRest /\ Clear(l)
    \/ \E l \in Lists, pos \in Nodes \cup Sentinels, v \in Values :
         AtRest /\ InsertAfter(l, pos, v)
    \/ \E l \in Lists, pos \in Nodes \cup Sentinels :
         AtRest /\ EraseAfter(l, pos)
    \/ \E lhs, rhs \in Lists : AtRest /\ Equal(lhs, rhs)
    \/ \E lhs, rhs \in Lists : AtRest /\ Less(lhs, rhs)
    \/ \E lhs, rhs \in Lists : AtRest /\ LessEq(lhs, rhs)
    \/ \E lhs, rhs \in Lists : AtRest /\ Greater(lhs, rhs)
    \/ \E lhs, rhs \in Lists : AtRest /\ GreaterEq(lhs, rhs)
    \/ \E l, rhs \in Lists : AssignCall(l, rhs)
    \/ CopyFirst
    \/ CopyNext
    \/ CopySwap
    \/ Unwind
    \/ AssignSwap
    \/ TmpDtor
    \/ ClearStep

SpecAssignSteps == Init /\ [][NextSteps]_vars

TypeOK ==
    /\ next \in [Nodes \cup Sentinels -> Nodes \cup {NULL}]
    /\ value \in [Nodes -> Values \cup {NoValue}]
    /\ size_ \in [AllLists -> 0..MaxSize]
    /\ heap \in [Nodes -> {"free", "live"}]
    /\ dfree \in BOOLEAN
    /\ live \in [Lists -> BOOLEAN]

\* ----------------------------------------------------------- properties
Pre == last.pre
LiveNodes(m) == {n \in Nodes : m.heap[n] = "live"}

\* s with x put in after its first k elements
InsertAt(s, k, x) == SubSeq(s, 1, k) \o <<x>> \o SubSeq(s, k + 1, Len(s))
\* s without its k-th element
RemoveAt(s, k) == SubSeq(s, 1, k - 1) \o SubSeq(s, k + 1, Len(s))
\* how many real nodes of l precede and include pos (0 for the sentinel)
IndexOf(m, l, pos) ==
    IF pos = Sentinel(l) THEN 0
    ELSE CHOOSE i \in 1..Len(Chain(m, l)) : Chain(m, l)[i] = pos

\* list k reads the same in m1 and m2: same nodes, same values, same size
SameList(m1, m2, k) ==
    /\ Chain(m1, k) = Chain(m2, k)
    /\ Contents(m1, k) = Contents(m2, k)
    /\ GetSize(m1, k) = GetSize(m2, k)

\* C1: in every reachable state GetSize() of each list equals the number of
\* real nodes reachable from that list's sentinel.
C1_SizeIsNodeCount ==
    \A l \in Lists : live[l] => GetSize(Mem, l) = Len(Chain(Mem, l))

\* C2: a == b returns true if and only if a and b have the same number of
\* elements and equal values at every position.
C2_EqualIffSameSequence ==
    last.op = "Equal" =>
        ((last.res = "true") <=>
            Contents(Mem, last.l) = Contents(Mem, last.r))

\* C3: PopFront on e1..en, n >= 1, leaves e2..en in order, frees exactly the
\* node of e1 and decreases GetSize() by exactly 1; PopFront on an empty list
\* changes neither contents nor size.
C3_PopFront ==
    last.op = "PopFront" =>
        LET c == Chain(Pre, last.l)
        IN  IF c # <<>>
            THEN /\ Chain(Mem, last.l) = Tail(c)
                 /\ Contents(Mem, last.l) = Tail(Contents(Pre, last.l))
                 /\ LiveNodes(Mem) = LiveNodes(Pre) \ {c[1]}
                 /\ ~dfree
                 /\ GetSize(Mem, last.l) = GetSize(Pre, last.l) - 1
            ELSE /\ Chain(Mem, last.l) = <<>>
                 /\ LiveNodes(Mem) = LiveNodes(Pre)
                 /\ GetSize(Mem, last.l) = GetSize(Pre, last.l)

\* C4: EraseAfter(pos) removes exactly the node directly after pos, leaves
\* every other element in its previous order, returns an iterator to the node
\* that now follows pos (end() when pos became the last position) and
\* decreases GetSize() by exactly 1.
C4_EraseAfter ==
    last.op = "EraseAfter" =>
        LET c == Chain(Pre, last.l)
            k == IndexOf(Pre, last.l, last.pos)
        IN  /\ Chain(Mem, last.l) = RemoveAt(c, k + 1)
            /\ Contents(Mem, last.l) = RemoveAt(Contents(Pre, last.l), k + 1)
            /\ LiveNodes(Mem) = LiveNodes(Pre) \ {c[k + 1]}
            /\ ~dfree
            /\ last.it = next[last.pos]
            /\ last.it = (IF k + 1 = Len(c) THEN end ELSE c[k + 2])
            /\ GetSize(Mem, last.l) = GetSize(Pre, last.l) - 1

\* C5: InsertAfter(pos, v) places a new node holding v directly after pos,
\* keeps all previously present elements in their previous relative order,
\* returns an iterator referencing the new node and increases GetSize() by
\* exactly 1.
C5_InsertAfter ==
    (last.op = "InsertAfter" /\ ~last.threw) =>
        LET c == Chain(Pre, last.l)
            k == IndexOf(Pre, last.l, last.pos)
        IN  /\ last.it \in Nodes \ LiveNodes(Pre)
            /\ heap[last.it] = "live"
            /\ value[last.it] = last.v
            /\ next[last.pos] = last.it
            /\ Chain(Mem, last.l) = InsertAt(c, k, last.it)
            /\ Contents(Mem, last.l) =
                   InsertAt(Contents(Pre, last.l), k, last.v)
            /\ GetSize(Mem, last.l) = GetSize(Pre, last.l) + 1

C5_Witness ==
    /\ last.op = "InsertAfter" /\ ~last.threw
    /\ Len(Chain(Pre, last.l)) = 2
    /\ last.pos = Chain(Pre, last.l)[1]
    /\ Contents(Pre, last.l)[1] # Contents(Pre, last.l)[2]

\* C6: InsertAfter(before_begin(), x) and PushFront(x) produce the same
\* result: x followed by the prior contents in order, GetSize() one larger.
C6_InsertAtFrontIsPushFront ==
    /\ (last.op = "InsertAfter" /\ last.pos = before_begin(last.l)) =>
          /\ Mem = PushFrontBody(Pre, last.l, last.v, last.ok).m
          /\ last.threw = PushFrontBody(Pre, last.l, last.v, last.ok).threw
    /\ (last.op \in {"InsertAfter", "PushFront"}
          /\ last.pos = before_begin(last.l) /\ ~last.threw) =>
          /\ Contents(Mem, last.l) = <<last.v>> \o Contents(Pre, last.l)
          /\ GetSize(Mem, last.l) = GetSize(Pre, last.l) + 1

C6_Witness ==
    /\ last.op = "InsertAfter" /\ ~last.threw
    /\ last.pos = before_begin(last.l)
    /\ Len(Chain(Pre, last.l)) = 2
    /\ Contents(Mem, last.l)[1] # Contents(Mem, last.l)[2]

\* C7: after copy-constructing b from a, b iterates the same value sequence
\* as a and reports the same size, b and a share no node, and every later
\* mutation of one list leaves the other's value sequence and size unchanged.
C7_CopyIsEqualAndIndependent ==
    /\ (last.op = "CopyConstruct" /\ ~last.threw) =>
          /\ Contents(Mem, last.l) = Contents(Mem, last.r)
          /\ GetSize(Mem, last.l) = GetSize(Mem, last.r)
          /\ Range(Chain(Mem, last.l)) \cap Range(Chain(Mem, last.r)) = {}
    /\ (last.op \in Mutators) =>
          \A k \in Lists \ {last.l} : live[k] => SameList(Mem, Pre, k)

\* C8: once every list is destroyed every node that was ever allocated has
\* been freed exactly once: nothing stays allocated, nothing is deleted twice
\* and no node linked into a live list has been freed.
C8_EveryNodeFreedOnce ==
    /\ ~dfree
    /\ \A l \in Lists :
           live[l] => \A n \in Range(Chain(Mem, l)) : heap[n] = "live"
    /\ (\A l \in Lists : ~live[l]) => LiveNodes(Mem) = {}

\* C9: if node allocation fails during PushFront, InsertAfter, copy
\* construction or copy assignment, every list that existed before the call
\* keeps its value sequence and size and no node allocated by the failed call
\* remains allocated.
C9_FailedAllocationChangesNothing ==
    (last.op \in Allocators /\ last.threw) =>
        /\ live = last.prelive
        /\ \A k \in Lists : live[k] => SameList(Mem, Pre, k)
        /\ LiveNodes(Mem) = LiveNodes(Pre)
        /\ ~dfree

\* a copy that fails after part of the chain was built
C9_Witness ==
    /\ last.op \in {"CopyConstruct", "Assign"} /\ last.threw
    /\ last.ok >= 1
    /\ Len(Chain(Pre, last.r)) > last.ok

\* C10: swap (member and free function) exchanges the two lists' value
\* sequences and sizes, allocates no node and frees no node; swapping twice
\* restores both lists.
C10_SwapExchanges ==
    IsSwap(last.op) =>
        /\ Chain(Mem, last.l) = Chain(Pre, last.r)
        /\ Chain(Mem, last.r) = Chain(Pre, last.l)
        /\ Contents(Mem, last.l) = Contents(Pre, last.r)
        /\ Contents(Mem, last.r) = Contents(Pre, last.l)
        /\ GetSize(Mem, last.l) = GetSize(Pre, last.r)
        /\ GetSize(Mem, last.r) = GetSize(Pre, last.l)
        /\ heap = Pre.heap /\ value = Pre.value /\ ~dfree
        /\ last.twice => Mem = last.pp

\* the second of two swaps of lists that differ in contents and in size
C10_Witness ==
    /\ last.op = "SwapFree" /\ last.twice
    /\ last.l # last.r
    /\ Contents(Pre, last.l) # Contents(Pre, last.r)
    /\ GetSize(Pre, last.l) # GetSize(Pre, last.r)
    /\ Contents(Mem, last.l) # <<>>

\* C11: Clear() on any reachable list, an already empty one included, frees
\* every real node of that list exactly once and leaves GetSize() == 0 and
\* begin() == end().
C11_Clear ==
    last.op = "Clear" =>
        /\ LiveNodes(Mem) = LiveNodes(Pre) \ Range(Chain(Pre, last.l))
        /\ ~dfree
        /\ GetSize(Mem, last.l) = 0
        /\ begin(Mem, last.l) = end
        /\ \A k \in Lists \ {last.l} : live[k] => SameList(Mem, Pre, k)

C11_Witness ==
    /\ last.op = "Clear"
    /\ Len(Chain(Pre, last.l)) = 2
    /\ LiveNodes(Mem) # {}

\* Clear() of a list that is already empty
C11_WitnessEmpty ==
    /\ last.op = "Clear"
    /\ Chain(Pre, last.l) = <<>>
    /\ GetSize(Pre, last.l) > 0

\* C12: constructing a list from an initializer sequence v1..vn yields a list
\* that iterates as v1..vn in that order and whose GetSize() is n.
C12_InitializerList ==
    (last.op = "ConstructInit" /\ ~last.threw) =>
        /\ live[last.l]
        /\ Contents(Mem, last.l) = last.values
        /\ GetSize(Mem, last.l) = Len(last.values)
        /\ Len(Chain(Mem, last.l)) = Len(last.values)
        /\ Range(Chain(Mem, last.l)) \cap LiveNodes(Pre) = {}

C12_Witness ==
    /\ last.op = "ConstructInit" /\ ~last.threw
    /\ Len(last.values) = 2
    /\ last.values[1] # last.values[2]

\* a < b in the mathematical sense: at the first position where a and b
\* differ a's element is smaller, or a is a proper prefix of b
LexLess(a, b) ==
    \E k \in 0..Min(Len(a), Len(b)) :
        /\ \A j \in 1..k : a[j] = b[j]
        /\ \/ k = Len(a) /\ k < Len(b)
           \/ k < Len(a) /\ k < Len(b) /\ a[k + 1] < b[k + 1]

\* C13: a < b is the lexicographic order of the value sequences; the empty
\* list is less than every non-empty list and no list is less than itself.
C13_LessIsLexicographic ==
    last.op = "Less" =>
        LET a == Contents(Mem, last.l)
            b == Contents(Mem, last.r)
        IN  /\ (last.res = "true") <=> LexLess(a, b)
            /\ (a = <<>> /\ b # <<>>) => last.res = "true"
            /\ a = b => last.res = "false"

C13_Witness ==
    /\ last.op = "Less" /\ last.res = "true"
    /\ Len(Contents(Mem, last.l)) = 2
    /\ Len(Contents(Mem, last.r)) = 1
    /\ Contents(Mem, last.l)[1] < Contents(Mem, last.r)[1]

\* a == b certainly returns true in memory m
ReturnsTrue(m, a, b) == Outcomes(OperatorEq(m, a, b)) = {"true"}

\* C14: equality of lists is an equivalence relation: a == a holds, a == b
\* implies b == a, and a == b together with b == c implies a == c.
C14_EqualityIsEquivalence ==
    last.op = "Equal" =>
        /\ last.l = last.r => last.res = "true"
        /\ last.res = "true" => ReturnsTrue(Mem, last.r, last.l)
        /\ \A c \in Lists :
               (live[c] /\ last.res = "true" /\ ReturnsTrue(Mem, last.r, c))
                   => ReturnsTrue(Mem, last.l, c)

\* C15: each of a <= b, a > b and a >= b returns exactly the negation of
\* a < b with the operands in the same order, so the three always agree.
C15_DerivedOrderingsNegateLess ==
    last.op \in {"LessEq", "Greater", "GreaterEq"} =>
        /\ (last.res = "true") <=>
               ~LexLess(Contents(Mem, last.l), Contents(Mem, last.r))
        /\ OperatorLessEq(Mem, last.l, last.r)
               = OperatorGreater(Mem, last.l, last.r)
        /\ OperatorGreater(Mem, last.l, last.r)
               = OperatorGreaterEq(Mem, last.l, last.r)

\* a > b returning true although b < a is false
C15_Witness ==
    /\ last.op = "Greater" /\ last.res = "true"
    /\ last.l # last.r
    /\ Contents(Mem, last.l) # <<>>
    /\ ~LexLess(Contents(Mem, last.r), Contents(Mem, last.l))

\* C16: self-assignment a = a leaves a unchanged: the same nodes in the same
\* order with the same values and size, and no node allocated or freed.
C16_SelfAssignment ==
    (last.op = "Assign" /\ last.l = last.r) =>
        /\ ~last.threw
        /\ SameList(Mem, Pre, last.l)
        /\ heap = Pre.heap /\ ~dfree
        /\ Mem = Pre
        /\ live = last.prelive

C16_Witness ==
    /\ last.op = "Assign" /\ last.l = last.r
    /\ Len(Chain(Mem, last.l)) = 2
    /\ NumFree > 0

\* the node the watched call unlinked and deleted, if any
Removed ==
    IF last.op = "PopFront"
    THEN {Chain(Pre, last.l)[i] : i \in {1} \cap DOMAIN Chain(Pre, last.l)}
    ELSE IF last.op = "EraseAfter" THEN {Pre.next[last.pos]}
    ELSE {}

\* C17: PushFront, InsertAfter, PopFront and EraseAfter invalidate only
\* iterators that reference the removed node: every other iterator into a
\* list still references the same live node holding the same value, reachable
\* from the same sentinel.
C17_OnlyRemovedNodeInvalidated ==
    last.op \in {"PushFront", "InsertAfter", "PopFront", "EraseAfter"} =>
        \A k \in Lists :
            last.prelive[k] =>
                /\ live[k]
                /\ \A n \in Range(Chain(Pre, k)) \ Removed :
                       /\ heap[n] = "live"
                       /\ value[n] = Pre.value[n]
                       /\ n \in Range(Chain(Mem, k))
                       /\ IndexOf(Mem, k, n) >= 1

\* EraseAfter of the middle node of three
C17_Witness ==
    /\ last.op = "EraseAfter"
    /\ Len(Chain(Pre, last.l)) = 3
    /\ last.pos = Chain(Pre, last.l)[1]
    /\ last.it = Chain(Pre, last.l)[3]

\* the nodes of the call's copy of rhs: allocated since the call started
Copied == LiveNodes(Mem) \ LiveNodes(Pre)
\* every node of the copy of rhs is allocated and linked: one of the lists the
\* copy passes through holds a chain of new nodes with rhs's value sequence
CopyBuilt ==
    \E k \in {TmpCopy, TmpAssign, last.l} :
        /\ Range(Chain(Mem, k)) \subseteq Copied
        /\ Contents(Mem, k) = Contents(Pre, last.r)
\* a node of a's contents at the call has been freed
OldNodeFreed == \E n \in Range(Chain(Pre, last.l)) : heap[n] = "free"

\* the order of allocation and release inside a = rhs
C18_NoReleaseBeforeCopyBuilt ==
    (last.op = "operator=" /\ last.l # last.r /\ OldNodeFreed) => CopyBuilt

\* a = rhs completed: a has rhs's values, rhs is as before, the old nodes of
\* a are freed; nothing is said here about GetSize() of a
C18_CompletedButSize ==
    (At("returned") /\ last.l # last.r) =>
        /\ Contents(Mem, last.l) = Contents(Pre, last.r)
        /\ SameList(Mem, Pre, last.r)
        /\ \A n \in Range(Chain(Pre, last.l)) : heap[n] = "free"
        /\ ~dfree

\* C18: during a = rhs with a distinct from rhs no node of a's previous
\* contents is freed until every node of the copy of rhs has been allocated
\* and linked; when the assignment completes a has rhs's value sequence and
\* size, rhs is unchanged, and all nodes of a's previous contents are freed.
C18_AssignBuildsBeforeRelease ==
    /\ C18_NoReleaseBeforeCopyBuilt
    /\ (At("returned") /\ last.l # last.r) =>
          /\ Contents(Mem, last.l) = Contents(Pre, last.r)
          /\ GetSize(Mem, last.l) = GetSize(Pre, last.r)
          /\ SameList(Mem, Pre, last.r)
          /\ \A n \in Range(Chain(Pre, last.l)) : heap[n] = "free"

\* the statements of operator= add up to the whole call
StepsAgreeWithAssignBody ==
    (At("returned") \/ At("threw")) =>
        \E ok \in 0..Min(Len(Chain(Pre, last.r)),
                        Cardinality(FreeNodes(Pre))) :
            LET r == AssignBody(Pre, last.l, last.r, ok)
            IN  r.threw = last.threw /\ r.m = Mem

\* the number of links p |-> n with p a sentinel of a live list or a live node
Predecessors(n) ==
    Cardinality({p \in Nodes \cup {Sentinel(l) : l \in Lists} :
                    /\ next[p] = n
                    /\ p \in Nodes => heap[p] = "live"
                    /\ p \notin Nodes => \E l \in Lists : live[l] /\ p = Sentinel(l)})

\* C19: the next-links from each sentinel form a finite acyclic chain ending
\* at null, every allocated real node is linked into exactly one list and has
\* exactly one predecessor, and no linked node has been freed.
C19_ChainsPartitionTheHeap ==
    /\ \A l \in Lists :
           live[l] =>
               /\ Len(Chain(Mem, l)) <= MaxNodes
               /\ Cardinality(Range(Chain(Mem, l))) = Len(Chain(Mem, l))
               /\ \A n \in Range(Chain(Mem, l)) : heap[n] = "live"
    /\ \A n \in LiveNodes(Mem) :
           /\ Cardinality({l \in Lists :
                               live[l] /\ n \in Range(Chain(Mem, l))}) = 1
           /\ Predecessors(n) = 1

\* C20: IsEmpty() returns true if and only if the list holds no element,
\* that is if and only if begin() == end().
C20_IsEmptyIffNoElement ==
    \A l \in Lists :
        live[l] => (IsEmpty(Mem, l) <=> begin(Mem, l) = end)

====
